---- MODULE Spec2Model ----
(***************************************************************************)
(* AutoRestartPod operator: the Reconcile loop of                          *)
(* AutoRestartPodReconciler, the two-grammar cron parser it calls and the  *)
(* robfig/cron schedule it evaluates, as a state machine over one          *)
(* AutoRestartPod object, the pods of the cluster and the wall clock.      *)
(*                                                                         *)
(* Instants are integers: ticks since 2025-01-01T00:00:00Z, with           *)
(* TicksPerSecond ticks in a second, so that an instant can lie between    *)
(* two whole seconds, as time.Now() does.                                  *)
(***************************************************************************)
EXTENDS Integers, Sequences, FiniteSets, TLC

(***************************************************************************)
(* Bounds of the model.                                                    *)
(***************************************************************************)
\* resolution of the clock: ticks per second
TicksPerSecond == 2
\* minutes of wall clock a behaviour covers, from its starting instant
HorizonMinutes == 2
\* pods of the cluster
MaxPods == 4

(***************************************************************************)
(* Time: time.Time and time.Duration.                                      *)
(***************************************************************************)
Second == TicksPerSecond
Minute == 60 * Second
Hour == 60 * Minute

\* time.Time{}: the zero instant (year 1), before every instant of the model
ZeroTime == 0 - 1
\* the least time.Duration: what Time.Sub saturates to
MinDuration == 0 - (1024 * 1024 * 1024)

\* t.After(u)
After(t, u) ==
  IF t = ZeroTime THEN FALSE
  ELSE IF u = ZeroTime THEN TRUE
  ELSE t > u

\* t.Sub(u): the difference, saturated when it overflows a Duration (the
\* zero instant lies more than 292 years before any instant of the model)
Sub(t, u) ==
  IF t = ZeroTime /\ u = ZeroTime THEN 0
  ELSE IF t = ZeroTime THEN MinDuration
  ELSE IF u = ZeroTime THEN 0 - MinDuration
  ELSE t - u

(***************************************************************************)
(* The calendar behind time.Time: the proleptic Gregorian calendar, from   *)
(* Wednesday 2025-01-01, day 0.                                            *)
(***************************************************************************)
IsLeap(y) == (y % 4 = 0 /\ y % 100 # 0) \/ y % 400 = 0

DaysIn(y, m) ==
  IF m = 2 THEN (IF IsLeap(y) THEN 29 ELSE 28)
  ELSE IF m \in {4, 6, 9, 11} THEN 30
  ELSE 31

\* the leap years before year y, and the day number of a date
LeapsBefore(y) == ((y - 1) \div 4) - ((y - 1) \div 100) + ((y - 1) \div 400)

DaysBeforeMonth(y, m) ==
  <<0, 31, 59, 90, 120, 151, 181, 212, 243, 273, 304, 334>>[m]
    + (IF m > 2 /\ IsLeap(y) THEN 1 ELSE 0)

DayNumber(y, m, d) ==
  365 * (y - 2025) + (LeapsBefore(y) - LeapsBefore(2025))
    + DaysBeforeMonth(y, m) + (d - 1)

\* A wall-clock reading: date, time of day and the running day number dn.
DateOf(dn) ==
  LET y == CHOOSE yy \in 2025..2032 :
             DayNumber(yy, 1, 1) <= dn /\ dn < DayNumber(yy + 1, 1, 1)
      m == CHOOSE mm \in 1..12 :
             /\ DayNumber(y, mm, 1) <= dn
             /\ dn < DayNumber(y, mm, 1) + DaysIn(y, mm)
  IN  [y |-> y, mo |-> m, d |-> dn - DayNumber(y, m, 1) + 1]

\* the reading of the whole second `secs` (seconds since day 0, 00:00:00)
WallOf(secs) ==
  LET dn == secs \div 86400
      sod == secs % 86400
      date == DateOf(dn)
  IN  [y |-> date.y, mo |-> date.mo, d |-> date.d, dn |-> dn,
       h |-> sod \div 3600, mi |-> (sod % 3600) \div 60, s |-> sod % 60]

SecsOf(w) == w.dn * 86400 + w.h * 3600 + w.mi * 60 + w.s

\* t.Weekday(): 0 is Sunday
Weekday(w) == (3 + w.dn) % 7

StartOfNextMonth(w) ==
  [y |-> IF w.mo = 12 THEN w.y + 1 ELSE w.y,
   mo |-> IF w.mo = 12 THEN 1 ELSE w.mo + 1,
   d |-> 1, dn |-> w.dn + (DaysIn(w.y, w.mo) - w.d) + 1,
   h |-> 0, mi |-> 0, s |-> 0]

StartOfNextDay(w) ==
  IF w.d = DaysIn(w.y, w.mo) THEN StartOfNextMonth(w)
  ELSE [w EXCEPT !.d = w.d + 1, !.dn = w.dn + 1, !.h = 0, !.mi = 0, !.s = 0]

(***************************************************************************)
(* robfig/cron v3: the parser.  An expression is taken already split: on   *)
(* white space into fields (strings.Fields), each field on "," into range  *)
(* expressions, each range expression on "/" and "-" into                  *)
(*   head    "*", "?", "n" (a number or name), "n-m", or "bad" (anything   *)
(*           parseIntOrName rejects, or more than one hyphen)              *)
(*   lo, hi  the numbers of "n" and "n-m"                                  *)
(*   hasStep, step   the part after "/"                                    *)
(***************************************************************************)
Star == [head |-> "*", lo |-> 0, hi |-> 0, hasStep |-> FALSE, step |-> 0]
QMark == [head |-> "?", lo |-> 0, hi |-> 0, hasStep |-> FALSE, step |-> 0]
StarStep(n) == [head |-> "*", lo |-> 0, hi |-> 0, hasStep |-> TRUE, step |-> n]
Num(n) == [head |-> "n", lo |-> n, hi |-> n, hasStep |-> FALSE, step |-> 0]
NumStep(n, k) == [head |-> "n", lo |-> n, hi |-> n, hasStep |-> TRUE, step |-> k]
Range(a, b) == [head |-> "n-m", lo |-> a, hi |-> b, hasStep |-> FALSE, step |-> 0]
Bad == [head |-> "bad", lo |-> 0, hi |-> 0, hasStep |-> FALSE, step |-> 0]

\* the schedule strings of the model, split
Fields(schedule) ==
  CASE schedule = "*/5 * * * *" ->
         << <<StarStep(5)>>, <<Star>>, <<Star>>, <<Star>>, <<Star>> >>
    [] schedule = "* 0/5 * * * ?" ->
         << <<Star>>, <<NumStep(0, 5)>>, <<Star>>, <<Star>>, <<Star>>, <<QMark>> >>
    [] schedule = "0 3 * * *" ->
         << <<Num(0)>>, <<Num(3)>>, <<Star>>, <<Star>>, <<Star>> >>
    [] schedule = "0 0 30 2 *" ->
         << <<Num(0)>>, <<Num(0)>>, <<Num(30)>>, <<Num(2)>>, <<Star>> >>
    [] schedule = "not-a-cron" -> << <<Bad>> >>
    [] schedule = "0 3 * * * ?" ->
         << <<Num(0)>>, <<Num(3)>>, <<Star>>, <<Star>>, <<Star>>, <<QMark>> >>
    [] schedule = "0 */12 * * * ?" ->
         << <<Num(0)>>, <<StarStep(12)>>, <<Star>>, <<Star>>, <<Star>>, <<QMark>> >>
    [] schedule = "0 */5 * * * *" ->
         << <<Num(0)>>, <<StarStep(5)>>, <<Star>>, <<Star>>, <<Star>>, <<Star>> >>
    [] schedule = "0 0 3 * * *" ->
         << <<Num(0)>>, <<Num(0)>>, <<Num(3)>>, <<Star>>, <<Star>>, <<Star>> >>
    [] schedule = "0 0 0 30 2 *" ->
         << <<Num(0)>>, <<Num(0)>>, <<Num(0)>>, <<Num(30)>>, <<Num(2)>>, <<Star>> >>
    [] schedule = "@hourly" -> << <<Bad>> >>
    [] schedule = "0 @hourly" -> << <<Num(0)>>, <<Bad>> >>
    [] OTHER -> << >>

\* the bounds of the six places: seconds, minutes, hours, dom, months, dow
PlaceMin(place) == IF place \in {"dom", "month"} THEN 1 ELSE 0
PlaceMax(place) ==
  CASE place \in {"second", "minute"} -> 59
    [] place = "hour" -> 23
    [] place = "dom" -> 31
    [] place = "month" -> 12
    [] place = "dow" -> 6

\* getRange: the values of one range expression, and whether it is a star
GetRange(tok, place) ==
  LET min == PlaceMin(place)
      max == PlaceMax(place)
      isStar == tok.head \in {"*", "?"}
      singleDigit == tok.head # "n-m"
      start == IF isStar THEN min ELSE tok.lo
      end0 == IF isStar THEN max ELSE tok.hi
      end == IF tok.hasStep /\ singleDigit THEN max ELSE end0
      step == IF tok.hasStep THEN tok.step ELSE 1
      extra == isStar /\ ~(tok.hasStep /\ step > 1)
      err == \/ tok.head = "bad"
             \/ start < min
             \/ end > max
             \/ start > end
             \/ step = 0
  IN  IF err THEN [ok |-> FALSE, bits |-> {}, star |-> FALSE]
      ELSE [ok |-> TRUE,
            bits |-> {v \in start..end : (v - start) % step = 0},
            star |-> extra]

\* getField: the union of the ranges of a comma-separated field
GetField(field, place) ==
  LET rs == [i \in 1..Len(field) |-> GetRange(field[i], place)]
  IN  IF \E i \in 1..Len(field) : ~rs[i].ok
      THEN [ok |-> FALSE, bits |-> {}, star |-> FALSE]
      ELSE [ok |-> TRUE,
            bits |-> UNION {rs[i].bits : i \in 1..Len(field)},
            star |-> \E i \in 1..Len(field) : rs[i].star]

NoSchedule ==
  [Second |-> {}, Minute |-> {}, Hour |-> {}, Dom |-> {}, Month |-> {},
   Dow |-> {}, DomStar |-> FALSE, DowStar |-> FALSE]

\* strings.HasPrefix(spec, "@"), for the schedule strings of the model
HasAtPrefix(schedule) == schedule = "@hourly"

\* all(r): every value of a place, with the star bit
All(place) == PlaceMin(place)..PlaceMax(place)

\* parseDescriptor: the named schedules
parseDescriptor(schedule) ==
  IF schedule = "@hourly"
  THEN [ok |-> TRUE,
        sch |-> [Second |-> {0}, Minute |-> {0}, Hour |-> All("hour"),
                 Dom |-> All("dom"), Month |-> All("month"), Dow |-> All("dow"),
                 DomStar |-> TRUE, DowStar |-> TRUE]]
  ELSE [ok |-> FALSE, sch |-> NoSchedule]

\* a variant in which a parser without cron.Second leaves the seconds place
\* a star
ParseSecondsStar(schedule, withSeconds) ==
  LET given == Fields(schedule)
      want == IF withSeconds THEN 6 ELSE 5
      fs == IF withSeconds THEN given ELSE << <<Star>> >> \o given
      sec == GetField(fs[1], "second")
      mnt == GetField(fs[2], "minute")
      hr == GetField(fs[3], "hour")
      dom == GetField(fs[4], "dom")
      mon == GetField(fs[5], "month")
      dow == GetField(fs[6], "dow")
  IN  IF HasAtPrefix(schedule) THEN parseDescriptor(schedule)
      ELSE IF Len(given) # want THEN [ok |-> FALSE, sch |-> NoSchedule]
      ELSE IF ~(sec.ok /\ mnt.ok /\ hr.ok /\ dom.ok /\ mon.ok /\ dow.ok)
      THEN [ok |-> FALSE, sch |-> NoSchedule]
      ELSE [ok |-> TRUE,
            sch |-> [Second |-> sec.bits, Minute |-> mnt.bits, Hour |-> hr.bits,
                     Dom |-> dom.bits, Month |-> mon.bits, Dow |-> dow.bits,
                     DomStar |-> dom.star, DowStar |-> dow.star]]

\* Parser.Parse: withSeconds tells whether the parser was built with
\* cron.Second; the other five places and cron.Descriptor are always on.
\* A spec that starts with "@" goes to parseDescriptor; otherwise
\* normalizeFields wants exactly as many fields as places and fills the
\* seconds place with "0" when the parser has none.
Parse(schedule, withSeconds) ==
  LET given == Fields(schedule)
      want == IF withSeconds THEN 6 ELSE 5
      fs == IF withSeconds THEN given ELSE << <<Num(0)>> >> \o given
      sec == GetField(fs[1], "second")
      mnt == GetField(fs[2], "minute")
      hr == GetField(fs[3], "hour")
      dom == GetField(fs[4], "dom")
      mon == GetField(fs[5], "month")
      dow == GetField(fs[6], "dow")
  IN  IF HasAtPrefix(schedule) THEN parseDescriptor(schedule)
      ELSE IF Len(given) # want THEN [ok |-> FALSE, sch |-> NoSchedule]
      ELSE IF ~(sec.ok /\ mnt.ok /\ hr.ok /\ dom.ok /\ mon.ok /\ dow.ok)
      THEN [ok |-> FALSE, sch |-> NoSchedule]
      ELSE [ok |-> TRUE,
            sch |-> [Second |-> sec.bits, Minute |-> mnt.bits, Hour |-> hr.bits,
                     Dom |-> dom.bits, Month |-> mon.bits, Dow |-> dow.bits,
                     DomStar |-> dom.star, DowStar |-> dow.star]]

\* the result of one of the two parsers: `by` names the parser it came from
ParsedBy(parsed, name) == [ok |-> parsed.ok, sch |-> parsed.sch, by |-> name]

\* a variant that tries the 6-field grammar first
parseCronScheduleSecondsFirst(schedule) ==
  LET withSeconds == Parse(schedule, TRUE)
  IN  IF withSeconds.ok THEN ParsedBy(withSeconds, "parser")
      ELSE ParsedBy(Parse(schedule, FALSE), "standardParser")

\* parseCronSchedule: the 5-field grammar first, the 6-field one if it fails
parseCronSchedule(schedule) ==
  LET standard == Parse(schedule, FALSE)
  IN  IF standard.ok THEN ParsedBy(standard, "standardParser")
      ELSE ParsedBy(Parse(schedule, TRUE), "parser")

(***************************************************************************)
(* robfig/cron v3: SpecSchedule.Next.                                      *)
(***************************************************************************)
dayMatches(s, w) ==
  LET domMatch == w.d \in s.Dom
      dowMatch == Weekday(w) \in s.Dow
  IN  IF s.DomStar \/ s.DowStar THEN domMatch /\ dowMatch
      ELSE domMatch \/ dowMatch

\* the month loop and the day loop: the start of the first day after w
\* whose month and day of month/week the schedule accepts, up to the end of
\* the year yearLimit
EarliestDate(dates) ==
  CHOOSE c \in dates : \A e \in dates :
    DayNumber(c[1], c[2], c[3]) <= DayNumber(e[1], e[2], e[3])

ReadingOfDate(c) ==
  [y |-> c[1], mo |-> c[2], d |-> c[3], dn |-> DayNumber(c[1], c[2], c[3]),
   h |-> 0, mi |-> 0, s |-> 0]

DayAmong(dates, w) ==
  IF dates = {} THEN [found |-> FALSE, w |-> w]
  ELSE [found |-> TRUE, w |-> ReadingOfDate(EarliestDate(dates))]

\* the days of the month worth a look: when either day field is a star a
\* day must be in Dom to match
DaysToTry(s) == IF s.DomStar \/ s.DowStar THEN s.Dom ELSE 1..31

DayAfter(s, w, tomorrow, yearLimit) ==
  IF tomorrow.y <= yearLimit /\ tomorrow.mo \in s.Month /\ dayMatches(s, tomorrow)
  THEN [found |-> TRUE, w |-> tomorrow]
  ELSE DayAmong({c \in (w.y..yearLimit) \X s.Month \X DaysToTry(s) :
                   /\ c[3] <= DaysIn(c[1], c[2])
                   /\ DayNumber(c[1], c[2], c[3]) > w.dn
                   /\ dayMatches(s, [d |-> c[3],
                                     dn |-> DayNumber(c[1], c[2], c[3])])}, w)

NextMatchingDay(s, w, yearLimit) == DayAfter(s, w, StartOfNextDay(w), yearLimit)

Least(S) == CHOOSE x \in S : \A y \in S : x <= y

\* the hour, minute and second loops, each run to its end at once: the first
\* time of day at or after h:mi:sec that the three fields accept, or none
\* when the loops would wrap into the next day
TimeOfDayFrom(s, h, mi, sec) ==
  LET sameMinute == IF h \in s.Hour /\ mi \in s.Minute
                    THEN {x \in s.Second : x >= sec} ELSE {}
      sameHour == IF h \in s.Hour THEN {x \in s.Minute : x > mi} ELSE {}
      laterHour == {x \in s.Hour : x > h}
  IN  IF sameMinute # {}
      THEN [found |-> TRUE, h |-> h, mi |-> mi, s |-> Least(sameMinute)]
      ELSE IF sameHour # {}
      THEN [found |-> TRUE, h |-> h, mi |-> Least(sameHour), s |-> Least(s.Second)]
      ELSE IF laterHour # {}
      THEN [found |-> TRUE, h |-> Least(laterHour), mi |-> Least(s.Minute),
            s |-> Least(s.Second)]
      ELSE [found |-> FALSE, h |-> 0, mi |-> 0, s |-> 0]

\* the first reading of a day the schedule accepts
FirstOfDay(s, day) ==
  IF day.found
  THEN [found |-> TRUE,
        w |-> [day.w EXCEPT !.h = Least(s.Hour), !.mi = Least(s.Minute),
                            !.s = Least(s.Second)]]
  ELSE [found |-> FALSE, w |-> day.w]

\* the reading of the day of w at the time of day `today`, or the first
\* reading of the next day accepted when the day of w has none left
ReadingFrom(s, w, today, yearLimit) ==
  IF today.found
  THEN [found |-> TRUE,
        w |-> [w EXCEPT !.h = today.h, !.mi = today.mi, !.s = today.s]]
  ELSE FirstOfDay(s, NextMatchingDay(s, w, yearLimit))

\* the search from the reading w: the first reading at or after w that all
\* six fields accept, or no reading once the year passes yearLimit
NextWall(s, w, yearLimit) ==
  IF w.y > yearLimit THEN [found |-> FALSE, w |-> w]
  ELSE IF w.mo \in s.Month /\ dayMatches(s, w)
  THEN ReadingFrom(s, w, TimeOfDayFrom(s, w.h, w.mi, w.s), yearLimit)
  ELSE FirstOfDay(s, NextMatchingDay(s, w, yearLimit))

\* the instant of a reading found, in a zone `offset` hours east of UTC
InstantOf(r, offset) ==
  IF r.found THEN SecsOf(r.w) * Second - offset * Hour ELSE ZeroTime

SearchFrom(s, first, offset) == InstantOf(NextWall(s, first, first.y + 5), offset)

\* a variant that starts the search at the whole second t lies in
ScheduleNextInclusive(s, t, offset) ==
  SearchFrom(s, WallOf((t + offset * Hour) \div Second), offset)

\* schedule.Next(t) for an instant t read in a zone `offset` hours east of
\* UTC (the schedule's own Location is time.Local, so the zone of t is
\* used): start at the upcoming whole second, search, and return the zero
\* time when nothing is found within five years.
ScheduleNext(s, t, offset) ==
  SearchFrom(s, WallOf(((t + offset * Hour) \div Second) + 1), offset)

(***************************************************************************)
(* The cluster: one AutoRestartPod object in namespace "default", the      *)
(* pods, the wall clock and the zone of the reconciling process.           *)
(***************************************************************************)
VARIABLES
  clock,            \* the instant time.Now() returns
  origin,           \* the instant the behaviour starts at
  local,            \* time.Local of the process: hours east of UTC
  exists,           \* the AutoRestartPod object is in the store
  spec,             \* obj.Spec: schedule, timeZone, selector
  lastRestartTime,  \* obj.Status.LastRestartTime: {} is nil, {t} is set
  pods,             \* the pods in the store
  servedOcc,        \* the occurrence the latest list-and-delete pass served
  res,              \* the latest Reconcile invocation: what it did and returned
  other             \* Status.LastRestartTime of a second AutoRestartPod object

vars ==
  <<clock, origin, local, exists, spec, lastRestartTime, pods, servedOcc, res, other>>

Pods == 1..MaxPods

\* the odd pods after the first live in another namespace; of every five pods
\* the last two do not carry the labels the selector asks for
PodNamespace(p) == IF p > 1 /\ p % 2 = 1 THEN "other" ELSE "default"
PodLabelled(p) == p % 5 \in {1, 2, 3}

Schedules ==
  {"*/5 * * * *", "* 0/5 * * * ?", "0 3 * * *", "0 0 30 2 *", "not-a-cron",
   "@hourly", "0 3 * * * ?", "0 */12 * * * ?"}

\* the schedules of the README and the descriptor: each with one zone
ReadmeSchedules == {"@hourly", "0 3 * * * ?", "0 */12 * * * ?"}

TimeZones == {"", "Asia/Shanghai", "Mars/Olympus"}

\* the selectors: one that compiles (matchLabels app=nginx), one whose
\* match-expression LabelSelectorAsSelector rejects, and the empty one ("")
Selectors == {"app=nginx", "malformed", ""}

\* the objects of the model: the schedules in the zones, the selector that
\* does not compile with a zone that resolves
Specs ==
  {sp \in [schedule : Schedules, timeZone : TimeZones, selector : Selectors] :
     /\ sp.selector = "malformed" =>
          (sp.timeZone = "Asia/Shanghai" /\ sp.schedule \in {"*/5 * * * *", "not-a-cron"})
     /\ sp.selector = "" => (sp.timeZone = "" /\ sp.schedule = "*/5 * * * *")
     /\ sp.schedule = "0 0 30 2 *" => sp.timeZone = ""
     /\ sp.schedule \in ReadmeSchedules =>
          /\ sp.selector = "app=nginx"
          /\ sp.timeZone = (IF sp.schedule = "0 3 * * * ?" THEN "Asia/Shanghai" ELSE "")}

\* the zones of the reconciling process: two where Reconcile reads them and
\* the schedule has an hour field to tell them apart
ProcessZones(sp) ==
  IF sp.timeZone = "" /\ sp.schedule \in {"0 3 * * *", "not-a-cron"}
  THEN {0, 8} ELSE {0}

\* time.LoadLocation: the zone's hours east of UTC
LoadLocation(timeZone) ==
  CASE timeZone = "Asia/Shanghai" -> [ok |-> TRUE, offset |-> 8]
    [] timeZone = "UTC" -> [ok |-> TRUE, offset |-> 0]
    [] OTHER -> [ok |-> FALSE, offset |-> 0]

\* a variant that falls back to UTC when the zone does not resolve
NowLocationFallback(timeZone, processZone) ==
  IF timeZone # "" /\ LoadLocation(timeZone).ok THEN LoadLocation(timeZone)
  ELSE IF timeZone # "" THEN [ok |-> TRUE, offset |-> 0]
  ELSE [ok |-> TRUE, offset |-> processZone]

\* the zone `now` is read in
NowLocation(timeZone, processZone) ==
  IF timeZone # "" THEN LoadLocation(timeZone)
  ELSE [ok |-> TRUE, offset |-> processZone]

\* a variant without the one-minute tolerance
NeedsRestartNoTolerance(nextRun, now) == ~After(nextRun, now)

\* needsRestart
NeedsRestart(nextRun, now) ==
  ~After(nextRun, now) \/ Sub(nextRun, now) < Minute

\* metav1.LabelSelectorAsSelector, its error dropped: a selector that does
\* not compile leaves a nil Selector, which MatchingLabelsSelector lists as
\* labels.Nothing(); the empty selector is labels.Everything()
SelectorMatches(selector, p) ==
  IF selector = "malformed" THEN FALSE
  ELSE IF selector = "" THEN TRUE
  ELSE PodLabelled(p)

\* r.List(ctx, podList, InNamespace(req.Namespace), MatchingLabelsSelector):
\* the matching pods of the namespace, in the order of their names
RECURSIVE Ascending(_)
Ascending(S) ==
  IF S = {} THEN << >>
  ELSE LET m == CHOOSE x \in S : \A y \in S : x <= y
       IN  <<m>> \o Ascending(S \ {m})

\* a variant of the listing that does not keep to the namespace
ListPodsAnyNamespace(live, namespace, selector) ==
  Ascending({p \in live : SelectorMatches(selector, p)})

ListPods(live, namespace, selector) ==
  Ascending({p \in live : PodNamespace(p) = namespace /\ SelectorMatches(selector, p)})

Op(name, pod, ok) == [op |-> name, pod |-> pod, ok |-> ok]

\* a variant of the deletion loop that gives up at the first failure
RECURSIVE DeleteEachStopOnError(_, _)
DeleteEachStopOnError(items, failing) ==
  IF items = << >> THEN << >>
  ELSE IF Head(items) \in failing THEN <<Op("delete", Head(items), FALSE)>>
  ELSE <<Op("delete", Head(items), TRUE)>>
         \o DeleteEachStopOnError(Tail(items), failing)

\* the deletion loop: one r.Delete per item, a failure logged and passed over
RECURSIVE DeleteEach(_, _)
DeleteEach(items, failing) ==
  IF items = << >> THEN << >>
  ELSE <<Op("delete", Head(items), Head(items) \notin failing)>>
         \o DeleteEach(Tail(items), failing)

\* a variant of the restart branch that takes the status back when the
\* listing fails
RestartBranchRollback(now, before, live, selector, fault, failing) ==
  IF fault = "update"
  THEN [ops |-> <<Op("updateStatus", 0, FALSE)>>, err |-> "update",
        status |-> before, live |-> live]
  ELSE IF fault = "list"
  THEN [ops |-> <<Op("updateStatus", 0, TRUE), Op("list", 0, FALSE),
                  Op("updateStatus", 0, TRUE)>>,
        err |-> "list", status |-> {}, live |-> live]
  ELSE LET items == ListPods(live, "default", selector)
           dels == DeleteEach(items, failing)
       IN  [ops |-> <<Op("updateStatus", 0, TRUE), Op("list", 0, TRUE)>> \o dels,
            err |-> "",
            status |-> {now},
            live |-> live \ {dels[i].pod : i \in {j \in 1..Len(dels) : dels[j].ok}}]

\* a variant of the restart branch that lists and deletes before it writes
\* the status
RestartBranchListFirst(now, before, live, selector, fault, failing) ==
  IF fault = "list"
  THEN [ops |-> <<Op("list", 0, FALSE)>>, err |-> "list",
        status |-> before, live |-> live]
  ELSE LET items == ListPods(live, "default", selector)
           dels == DeleteEach(items, failing)
           gone == {dels[i].pod : i \in {j \in 1..Len(dels) : dels[j].ok}}
       IN  [ops |-> <<Op("list", 0, TRUE)>> \o dels
                      \o <<Op("updateStatus", 0, fault # "update")>>,
            err |-> IF fault = "update" THEN "update" ELSE "",
            status |-> IF fault = "update" THEN before ELSE {now},
            live |-> live \ gone]

\* a variant of the restart branch that returns the error of the first
\* Delete that fails
RestartBranchFatalDelete(now, before, live, selector, fault, failing) ==
  IF fault = "update"
  THEN [ops |-> <<Op("updateStatus", 0, FALSE)>>, err |-> "update",
        status |-> before, live |-> live]
  ELSE IF fault = "list"
  THEN [ops |-> <<Op("updateStatus", 0, TRUE), Op("list", 0, FALSE)>>,
        err |-> "list", status |-> {now}, live |-> live]
  ELSE LET items == ListPods(live, "default", selector)
           dels == DeleteEachStopOnError(items, failing)
       IN  [ops |-> <<Op("updateStatus", 0, TRUE), Op("list", 0, TRUE)>> \o dels,
            err |-> IF \E i \in 1..Len(dels) : ~dels[i].ok THEN "delete" ELSE "",
            status |-> {now},
            live |-> live \ {dels[i].pod : i \in {j \in 1..Len(dels) : dels[j].ok}}]

\* what the restart branch does: the status write, the listing, the
\* deletions.  `fault` names the store call that fails in this invocation
\* ("none", "get", "update" or "list"), `failing` the pods whose Delete fails.
RestartBranch(now, before, live, selector, fault, failing) ==
  IF fault = "update"
  THEN [ops |-> <<Op("updateStatus", 0, FALSE)>>, err |-> "update",
        status |-> before, live |-> live]
  ELSE IF fault = "list"
  THEN [ops |-> <<Op("updateStatus", 0, TRUE), Op("list", 0, FALSE)>>,
        err |-> "list", status |-> {now}, live |-> live]
  ELSE LET items == ListPods(live, "default", selector)
           dels == DeleteEach(items, failing)
       IN  [ops |-> <<Op("updateStatus", 0, TRUE), Op("list", 0, TRUE)>> \o dels,
            err |-> "",
            status |-> {now},
            live |-> live \ {dels[i].pod : i \in {j \in 1..Len(dels) : dels[j].ok}}]

\* a variant of the other branch that never writes the status
InitializeBranchNoWrite(now, before, live, fault) ==
  [ops |-> << >>, err |-> "", status |-> before, live |-> live]

\* a variant of the other branch that writes the status in every invocation
InitializeBranchAlways(now, before, live, fault) ==
  IF fault = "update"
  THEN [ops |-> <<Op("updateStatus", 0, FALSE)>>, err |-> "update",
        status |-> before, live |-> live]
  ELSE [ops |-> <<Op("updateStatus", 0, TRUE)>>, err |-> "",
        status |-> {now}, live |-> live]

\* a variant of the other branch that drops the error of the status write
InitializeBranchUnchecked(now, before, live, fault) ==
  IF before # {}
  THEN [ops |-> << >>, err |-> "", status |-> before, live |-> live]
  ELSE IF fault = "update"
  THEN [ops |-> <<Op("updateStatus", 0, FALSE)>>, err |-> "",
        status |-> before, live |-> live]
  ELSE [ops |-> <<Op("updateStatus", 0, TRUE)>>, err |-> "",
        status |-> {now}, live |-> live]

\* what the other branch does: the first-observation write of the status
InitializeBranch(now, before, live, fault) ==
  IF before # {}
  THEN [ops |-> << >>, err |-> "", status |-> before, live |-> live]
  ELSE IF fault = "update"
  THEN [ops |-> <<Op("updateStatus", 0, FALSE)>>, err |-> "update",
        status |-> before, live |-> live]
  ELSE [ops |-> <<Op("updateStatus", 0, TRUE)>>, err |-> "",
        status |-> {now}, live |-> live]

\* Reconcile from the computation of nextRun to the return
Decide(now, nextRun, needsRestart, fault, failing) ==
  LET branch == IF needsRestart
                THEN RestartBranch(now, lastRestartTime, pods, spec.selector,
                                   fault, failing)
                ELSE InitializeBranch(now, lastRestartTime, pods, fault)
  IN  [ops |-> <<Op("get", 0, TRUE)>> \o branch.ops, err |-> branch.err,
       requeueAfter |-> IF branch.err = "" THEN Sub(nextRun, now) ELSE 0,
       nextRun |-> nextRun, needsRestart |-> needsRestart,
       status |-> branch.status, live |-> branch.live]

\* an invocation that returns an error before it reads the clock
ReturnEarly(getOK, err) ==
  [ops |-> <<Op("get", 0, getOK)>>, err |-> err, requeueAfter |-> 0,
   nextRun |-> ZeroTime, needsRestart |-> FALSE,
   status |-> lastRestartTime, live |-> pods]

\* Reconcile once the object is fetched
Reconciled(now, parsed, loc, fault, failing) ==
  IF ~parsed.ok THEN ReturnEarly(TRUE, "parse")
  ELSE IF ~loc.ok THEN ReturnEarly(TRUE, "timezone")
  ELSE LET nextRun == ScheduleNext(parsed.sch, now, loc.offset)
       IN  Decide(now, nextRun, NeedsRestart(nextRun, now), fault, failing)

\* Reconcile, from r.Get to the return: the record of the invocation, with
\* the status and the pods it leaves in the store
ReconcileOutcome(now, fault, failing) ==
  IF ~exists THEN ReturnEarly(FALSE, "NotFound")
  ELSE IF fault = "get" THEN ReturnEarly(FALSE, "get")
  ELSE Reconciled(now, parseCronSchedule(spec.schedule),
                  NowLocation(spec.timeZone, local), fault, failing)

\* the invocation listed the pods and ran the deletion loop
PassDone(r) == \E i \in 1..Len(r.ops) : r.ops[i].op = "list" /\ r.ops[i].ok

NotCalled ==
  [called |-> FALSE, now |-> 0, ops |-> << >>, err |-> "",
   requeueAfter |-> 0, nextRun |-> ZeroTime, needsRestart |-> FALSE,
   before |-> {}]

(***************************************************************************)
(* The instants the clock visits: around every minute boundary of the      *)
(* horizon, the boundary itself, one tick after it and one tick before the *)
(* next.  A behaviour starts one minute before an occurrence of its        *)
(* schedule: at 02:59:00 of 2025-01-02 in the zone `now` is read in for    *)
(* the daily one, at 11:59:00Z of 2025-01-01 for the others.               *)
(***************************************************************************)
Offsets == {0, 1, Minute - 1}

OriginOf(sp, processZone) ==
  IF sp.schedule = "0 3 * * *"
  THEN (24 + 2 - NowLocation(sp.timeZone, processZone).offset) * Hour + 59 * Minute
  ELSE 11 * Hour + 59 * Minute

Instants(from) ==
  {from + m * Minute + o : m \in 0..(HorizonMinutes - 1), o \in Offsets}
    \cup {from + HorizonMinutes * Minute}

Init ==
  /\ spec \in Specs
  /\ local \in ProcessZones(spec)
  /\ origin = OriginOf(spec, local)
  /\ clock = origin
  /\ exists = TRUE
  /\ lastRestartTime \in {{}, {origin - 5 * Minute}}
  /\ pods = Pods
  /\ servedOcc = {}
  /\ res = NotCalled
  /\ other = {}

\* time passes
Tick ==
  /\ \E t \in Instants(origin) : t > clock /\ clock' = t
  /\ UNCHANGED <<origin, local, exists, spec, lastRestartTime, pods, servedOcc,
                 res, other>>

\* one invocation of Reconcile for the object
Invoke(fault, failing) ==
  \E out \in {ReconcileOutcome(clock, fault, failing)} :
    /\ res' = [called |-> TRUE, now |-> clock, ops |-> out.ops, err |-> out.err,
               requeueAfter |-> out.requeueAfter, nextRun |-> out.nextRun,
               needsRestart |-> out.needsRestart, before |-> lastRestartTime]
    /\ lastRestartTime' = out.status
    /\ pods' = out.live
    /\ servedOcc' = IF PassDone(out) THEN {out.nextRun} ELSE servedOcc
    /\ UNCHANGED <<clock, origin, local, exists, spec, other>>

\* Reconcile called by the control loop: for a watch event, a requeue or a
\* retry, with one store call failing or with the Delete of some pods failing
Reconcile ==
  \/ \E fault \in {"get", "update", "list"} : Invoke(fault, {})
  \/ \E failing \in SUBSET {p \in pods : /\ PodNamespace(p) = "default"
                                        /\ SelectorMatches(spec.selector, p)} :
       Invoke("none", failing)

\* the workload controllers put the deleted pods back
RecreatePods ==
  /\ pods # Pods
  /\ pods' = Pods
  /\ UNCHANGED <<clock, origin, local, exists, spec, lastRestartTime, servedOcc,
                 res, other>>

\* the object is deleted by its owner, and its status with it
DeleteObject ==
  /\ exists
  /\ exists' = FALSE
  /\ lastRestartTime' = {}
  /\ UNCHANGED <<clock, origin, local, spec, pods, servedOcc, res, other>>

Next == Tick \/ Reconcile \/ RecreatePods \/ DeleteObject

Spec == Init /\ [][Next]_vars

(***************************************************************************)
(* The control loop of the periodic-restart claim: the object is left      *)
(* alone, every store call succeeds, and after the first invocation        *)
(* Reconcile is called again only once the returned RequeueAfter has       *)
(* elapsed.                                                                *)
(***************************************************************************)
LoopInit ==
  /\ Init
  /\ spec.schedule \in {"*/5 * * * *", "0 3 * * *"}
  /\ spec.timeZone # "Mars/Olympus"
  /\ spec.selector = "app=nginx"

LoopReconcile ==
  /\ \/ ~res.called
     \/ /\ res.err = ""
        /\ res.requeueAfter > 0
        /\ clock >= res.now + res.requeueAfter
  /\ Invoke("none", {})

LoopNext == Tick \/ LoopReconcile \/ RecreatePods

LoopSpec == LoopInit /\ [][LoopNext]_vars

(***************************************************************************)
(* Two objects: beside the object above, a second AutoRestartPod object of *)
(* the same namespace whose selector matches the same pods.  The           *)
(* controller serializes the invocations for one object and may run those  *)
(* for different objects side by side.                                     *)
(***************************************************************************)
OtherSpec == [schedule |-> "* 0/5 * * * ?", timeZone |-> "", selector |-> "app=nginx"]

\* the pods of the namespace a selector matches
Matched(live, selector) ==
  {p \in live : PodNamespace(p) = "default" /\ SelectorMatches(selector, p)}

\* Reconcile for the second object from nextRun on, every store call
\* succeeding but the Delete of the pods in `failing`
OtherBranch(now, nextRun, live, failing) ==
  IF NeedsRestart(nextRun, now)
  THEN RestartBranch(now, other, live, OtherSpec.selector, "none", failing)
  ELSE InitializeBranch(now, other, live, "none")

OtherOutcome(now, live, failing) ==
  OtherBranch(now,
              ScheduleNext(parseCronSchedule(OtherSpec.schedule).sch, now,
                           NowLocation(OtherSpec.timeZone, local).offset),
              live, failing)

\* one invocation of Reconcile for the second object
ReconcileOther ==
  \E out \in {OtherOutcome(clock, pods, {})} :
    /\ other' = out.status
    /\ pods' = out.live
    /\ UNCHANGED <<clock, origin, local, exists, spec, lastRestartTime, servedOcc, res>>

\* the invocations for the two objects side by side, both restarting: both
\* list the pods, then each pod is deleted by the invocation that reaches
\* it first and the Delete of the other fails.  `stolen` are the pods the
\* second object's invocation deletes first.
ReconcileRace ==
  \E stolen \in (SUBSET Matched(pods, OtherSpec.selector)) \ {{}} :
    \E out \in {ReconcileOutcome(clock, "none", stolen)} :
      \E b \in {IF PassDone(out)
                 THEN OtherOutcome(clock, pods, Matched(pods, spec.selector) \ stolen)
                 ELSE out} :
        /\ PassDone(out)
        /\ PassDone(b)
        /\ res' = [called |-> TRUE, now |-> clock, ops |-> out.ops, err |-> out.err,
                   requeueAfter |-> out.requeueAfter, nextRun |-> out.nextRun,
                   needsRestart |-> out.needsRestart, before |-> lastRestartTime]
        /\ lastRestartTime' = out.status
        /\ other' = b.status
        /\ pods' = out.live \cap b.live
        /\ servedOcc' = {out.nextRun}
        /\ UNCHANGED <<clock, origin, local, exists, spec>>

PairInit ==
  /\ Init
  /\ spec.schedule = "*/5 * * * *"
  /\ spec.timeZone = ""
  /\ spec.selector = OtherSpec.selector
  /\ local = 0
  /\ lastRestartTime = {}

PairNext == Tick \/ Reconcile \/ ReconcileOther \/ ReconcileRace \/ RecreatePods

PairSpec == PairInit /\ [][PairNext]_vars

(***************************************************************************)
(* The Reconcile of internal/controller/autorestartpod_controller.go: it   *)
(* returns to wait whenever nextRun is after now, and otherwise lists,     *)
(* deletes and only then writes the status.                                *)
(***************************************************************************)
\* a variant of the test that waits only for a nextRun a minute or more ahead
NextRunAheadByAMinute(nextRun, now) ==
  After(nextRun, now) /\ ~(Sub(nextRun, now) < Minute)

\* nextRun.After(now)
NextRunAhead(nextRun, now) == After(nextRun, now)

\* from r.List to the status write.  `fault` names the store call that fails
\* in this invocation, `failing` the pods whose Delete fails.
ListDeleteUpdate(now, before, live, selector, fault, failing) ==
  IF fault = "list"
  THEN [ops |-> <<Op("list", 0, FALSE)>>, err |-> "list",
        status |-> before, live |-> live]
  ELSE LET items == ListPods(live, "default", selector)
           dels == DeleteEach(items, failing)
           gone == {dels[i].pod : i \in {j \in 1..Len(dels) : dels[j].ok}}
       IN  [ops |-> <<Op("list", 0, TRUE)>> \o dels
                      \o <<Op("updateStatus", 0, fault # "update")>>,
            err |-> IF fault = "update" THEN "update" ELSE "",
            status |-> IF fault = "update" THEN before ELSE {now},
            live |-> live \ gone]

\* what the invocation does with the pass it has run
AfterPass(now, nextRun, pass) ==
  [ops |-> <<Op("get", 0, TRUE)>> \o pass.ops, err |-> pass.err,
   requeueAfter |-> IF pass.err = "" THEN Sub(nextRun, now) ELSE 0,
   nextRun |-> nextRun, needsRestart |-> TRUE,
   status |-> pass.status, live |-> pass.live]

\* this Reconcile from the computation of nextRun to the return
WaitOrRestart(now, nextRun, fault, failing) ==
  IF NextRunAhead(nextRun, now)
  THEN [ops |-> <<Op("get", 0, TRUE)>>, err |-> "",
        requeueAfter |-> Sub(nextRun, now),
        nextRun |-> nextRun, needsRestart |-> FALSE,
        status |-> lastRestartTime, live |-> pods]
  ELSE AfterPass(now, nextRun,
                 ListDeleteUpdate(now, lastRestartTime, pods, spec.selector,
                                  fault, failing))

\* this Reconcile once the object is fetched
Fetched(now, parsed, loc, fault, failing) ==
  IF ~parsed.ok THEN ReturnEarly(TRUE, "parse")
  ELSE IF ~loc.ok THEN ReturnEarly(TRUE, "timezone")
  ELSE WaitOrRestart(now, ScheduleNext(parsed.sch, now, loc.offset), fault, failing)

\* this Reconcile, from r.Get to the return
EarlierOutcome(now, fault, failing) ==
  IF ~exists THEN ReturnEarly(FALSE, "NotFound")
  ELSE IF fault = "get" THEN ReturnEarly(FALSE, "get")
  ELSE Fetched(now, parseCronSchedule(spec.schedule),
               NowLocation(spec.timeZone, local), fault, failing)

\* this Reconcile called by the control loop, with one store call failing or
\* with the Delete of some pods failing
ReconcileEarlier ==
  \E fault \in {"none", "get", "update", "list"} :
    \E failing \in IF fault = "none"
                   THEN SUBSET {p \in pods : /\ PodNamespace(p) = "default"
                                             /\ SelectorMatches(spec.selector, p)}
                   ELSE {{}} :
      \E out \in {EarlierOutcome(clock, fault, failing)} :
        /\ res' = [called |-> TRUE, now |-> clock, ops |-> out.ops,
                   err |-> out.err, requeueAfter |-> out.requeueAfter,
                   nextRun |-> out.nextRun, needsRestart |-> out.needsRestart,
                   before |-> lastRestartTime]
        /\ lastRestartTime' = out.status
        /\ pods' = out.live
        /\ servedOcc' = IF PassDone(out) THEN {out.nextRun} ELSE servedOcc
        /\ UNCHANGED <<clock, origin, local, exists, spec, other>>

EarlierNext == Tick \/ ReconcileEarlier \/ RecreatePods \/ DeleteObject

EarlierSpec == Init /\ [][EarlierNext]_vars

(***************************************************************************)
(* What an invocation's record shows.                                      *)
(***************************************************************************)
IsDelete(o) == o.op = "delete"
IsList(o) == o.op = "list"
IsUpdate(o) == o.op = "updateStatus"

Deletes(r) == SelectSeq(r.ops, IsDelete)
ListCalled(r) == SelectSeq(r.ops, IsList) # << >>
UpdateCalled(r) == SelectSeq(r.ops, IsUpdate) # << >>
StatusWritten(r) == \E i \in 1..Len(r.ops) : IsUpdate(r.ops[i]) /\ r.ops[i].ok
GetSucceeded(r) == r.called /\ r.ops[1].ok

\* the invocation got as far as computing nextRun
Decided(r) == r.called /\ r.err \notin {"get", "NotFound", "parse", "timezone"}

\* the schedule of the object and the zone its `now` is read in
TheSchedule == parseCronSchedule(spec.schedule).sch
TheOffset == NowLocation(spec.timeZone, local).offset

BothGrammarsReject == ~Parse(spec.schedule, FALSE).ok /\ ~Parse(spec.schedule, TRUE).ok
ZoneUnresolvable == spec.timeZone # "" /\ ~LoadLocation(spec.timeZone).ok

Noon == 12 * Hour

\* a step of Reconcile
Invoked == res' # res

(***************************************************************************)
(* C1  Periodic restart: under the control loop above, for a schedule      *)
(* whose occurrences are more than a minute apart, every occurrence T gets *)
(* its list-and-delete pass.  As a property a finite run refutes: when the *)
(* loop comes back for the occurrence T the previous invocation announced, *)
(* at or after T, then T was served before or this invocation serves it.   *)
(***************************************************************************)
C1_EveryOccurrenceServed ==
  [][(/\ res.called /\ res.err = "" /\ res.nextRun # ZeroTime
      /\ Invoked
      /\ clock >= res.nextRun)
       => (PassDone(res') \/ servedOcc = {res.nextRun})]_vars

(***************************************************************************)
(* C2  An invocation restarts (writes lastRestartTime = now, lists and     *)
(* deletes) if and only if nextRun = schedule.Next(now) is not after now   *)
(* or is less than a minute ahead: no listing is ever attempted when that  *)
(* does not hold, and when no store call fails the restart is performed    *)
(* exactly when it holds.                                                  *)
(***************************************************************************)
C2_RestartIffDue ==
  Decided(res) =>
    LET dueNow == ~After(res.nextRun, res.now) \/ Sub(res.nextRun, res.now) < Minute
    IN  /\ res.nextRun = ScheduleNext(TheSchedule, res.now, TheOffset)
        /\ (UpdateCalled(res) /\ res.before # {}) => dueNow
        /\ ListCalled(res) => dueNow
        /\ Deletes(res) # << >> => dueNow
        /\ res.err = "" =>
             /\ dueNow <=> PassDone(res)
             /\ dueNow => StatusWritten(res)
             /\ (dueNow /\ exists) => lastRestartTime = {res.now}

\* the 6-field schedule restarts less than a minute ahead of its occurrence
C2_Witness ==
  /\ res.called
  /\ spec.schedule = "* 0/5 * * * ?"
  /\ After(res.nextRun, res.now)
  /\ Sub(res.nextRun, res.now) < Minute
  /\ PassDone(res)
  /\ lastRestartTime = {res.now}

(***************************************************************************)
(* C3  For schedule "*/5 * * * *", now = 12:00:00 and lastRestartTime      *)
(* unset, the invocation restarts (lists and deletes), sets                *)
(* lastRestartTime to 12:00:00 and returns a requeue delay of 5 minutes.   *)
(***************************************************************************)
C3_RestartAtNoon ==
  [][(/\ Invoked
      /\ spec.schedule = "*/5 * * * *"
      /\ clock = Noon
      /\ lastRestartTime = {}
      /\ res'.err = "")
       => (/\ PassDone(res')
           /\ lastRestartTime' = {Noon}
           /\ res'.requeueAfter = 5 * Minute)]_vars

(***************************************************************************)
(* C4  Every successful invocation returns the requeue delay               *)
(* schedule.Next(now) - now, and that delay is strictly positive.          *)
(***************************************************************************)
C4_RequeuePositive ==
  (res.called /\ res.err = "") =>
    /\ res.requeueAfter = Sub(ScheduleNext(TheSchedule, res.now, TheOffset), res.now)
    /\ res.requeueAfter > 0

(***************************************************************************)
(* C5  At most one restart per occurrence: an invocation performs no       *)
(* list-and-delete pass for an occurrence that a pass has served already.  *)
(***************************************************************************)
C5_OnePassPerOccurrence ==
  [][(Invoked /\ PassDone(res') /\ res'.nextRun # ZeroTime)
       => servedOcc # {res'.nextRun}]_vars

(***************************************************************************)
(* C6  While the object is in the store its lastRestartTime never          *)
(* decreases and, once set, is never unset.                                *)
(***************************************************************************)
C6_LastRestartMonotonic ==
  [][(exists' /\ lastRestartTime # {})
       => (/\ lastRestartTime' # {}
           /\ \A a \in lastRestartTime, b \in lastRestartTime' : a <= b)]_vars

\* an invocation has replaced a recorded time by a later one
C6_Witness ==
  /\ res.called
  /\ res.before # {}
  /\ StatusWritten(res)
  /\ lastRestartTime = {res.now}
  /\ \A a \in res.before : a < res.now

(***************************************************************************)
(* C7  When the listing fails in a reconciliation that is due for an       *)
(* occurrence of the schedule, the error is returned, no deletion is       *)
(* attempted and the persisted lastRestartTime is what it was before the   *)
(* invocation.                                                             *)
(***************************************************************************)
C7_ListFailureLeavesStatus ==
  (res.called /\ res.err = "list" /\ res.nextRun # ZeroTime /\ exists) =>
    /\ Deletes(res) = << >>
    /\ lastRestartTime = res.before

(***************************************************************************)
(* C8  When both grammars reject the schedule, or a non-empty timeZone     *)
(* does not resolve, Reconcile returns that error having listed nothing,   *)
(* deleted nothing and written no status, whatever the lastRestartTime.    *)
(***************************************************************************)
C8_InvalidSpecNoAction ==
  (GetSucceeded(res) /\ (BothGrammarsReject \/ ZoneUnresolvable)) =>
    /\ res.err = (IF BothGrammarsReject THEN "parse" ELSE "timezone")
    /\ Len(res.ops) = 1
    /\ exists => lastRestartTime = res.before

\* an unresolvable zone on an object that has a lastRestartTime
C8_Witness ==
  /\ GetSucceeded(res)
  /\ ZoneUnresolvable
  /\ ~BothGrammarsReject
  /\ res.err = "timezone"
  /\ res.before # {}
  /\ lastRestartTime = res.before

(***************************************************************************)
(* C9  When the selector cannot be resolved, a due reconciliation in which *)
(* no store call fails signals the configuration error at once: no status  *)
(* write, no listing, no deletion.                                         *)
(***************************************************************************)
C9_SelectorErrorSignalled ==
  (/\ GetSucceeded(res) /\ res.needsRestart /\ spec.selector = "malformed"
   /\ res.err \notin {"update", "list"}) =>
    /\ res.err = "selector"
    /\ Len(res.ops) = 1
    /\ exists => lastRestartTime = res.before

(***************************************************************************)
(* C10  In a due reconciliation whose listing succeeds, every matched pod  *)
(* gets exactly one deletion attempt whichever deletions fail, nothing     *)
(* else gets one, Reconcile returns no error with the requeue delay, and   *)
(* lastRestartTime becomes now.                                            *)
(***************************************************************************)
C10_EveryPodOneAttempt ==
  [][(Invoked /\ PassDone(res')) =>
       LET matched == {p \in pods : /\ PodNamespace(p) = "default"
                                    /\ \/ spec.selector = ""
                                       \/ spec.selector = "app=nginx" /\ PodLabelled(p)}
           dels == Deletes(res')
       IN  /\ \A p \in matched :
                Cardinality({i \in 1..Len(dels) : dels[i].pod = p}) = 1
           /\ \A i \in 1..Len(dels) : dels[i].pod \in matched
           /\ \A p \in matched : p \in pods' <=>
                \E i \in 1..Len(dels) : dels[i].pod = p /\ ~dels[i].ok
           /\ res'.err = ""
           /\ res'.requeueAfter = Sub(res'.nextRun, clock)
           /\ lastRestartTime' = {clock}]_vars

\* the first of two matched pods fails to delete, the second is deleted
C10_Witness ==
  /\ res.called
  /\ PassDone(res)
  /\ res.err = ""
  /\ Len(Deletes(res)) = 2
  /\ ~Deletes(res)[1].ok
  /\ Deletes(res)[2].ok
  /\ lastRestartTime = {res.now}

(***************************************************************************)
(* C11  A reconciliation that is not due never lists or deletes; when the  *)
(* lastRestartTime is unset and it returns no error, it has written        *)
(* lastRestartTime = now with exactly one status write and returns the     *)
(* requeue delay nextRun - now.                                            *)
(***************************************************************************)
C11_InitializeStatusOnly ==
  (Decided(res) /\ ~res.needsRestart) =>
    /\ ~ListCalled(res)
    /\ Deletes(res) = << >>
    /\ (res.before = {} /\ res.err = "") =>
          /\ res.ops = <<Op("get", 0, TRUE), Op("updateStatus", 0, TRUE)>>
          /\ exists => lastRestartTime = {res.now}
          /\ res.requeueAfter = Sub(res.nextRun, res.now)
          /\ res.requeueAfter >= Minute

\* the first observation of a "*/5 * * * *" object, outside the last minute
C11_Witness ==
  /\ res.called /\ res.err = ""
  /\ spec.schedule = "*/5 * * * *"
  /\ ~res.needsRestart
  /\ res.before = {}
  /\ Len(res.ops) = 2
  /\ lastRestartTime = {res.now}

(***************************************************************************)
(* C12  A reconciliation that is not due on an object whose                *)
(* lastRestartTime is set is a no-op: the only store call is the Get, the  *)
(* lastRestartTime stays what it was, the result is nextRun - now, and     *)
(* Reconcile applied again at the same instant does the same.              *)
(***************************************************************************)
C12_SameAgain(again) ==
  /\ again.ops = res.ops
  /\ again.err = res.err
  /\ again.requeueAfter = res.requeueAfter
  /\ again.status = lastRestartTime
  /\ again.live = pods

C12_NoOpWhenNotDue ==
  (Decided(res) /\ ~res.needsRestart /\ res.before # {}) =>
    /\ res.ops = <<Op("get", 0, TRUE)>>
    /\ res.err = ""
    /\ res.requeueAfter = Sub(res.nextRun, res.now)
    /\ exists => lastRestartTime = res.before
    /\ (exists /\ clock = res.now) =>
          C12_SameAgain(ReconcileOutcome(clock, "none", {}))

\* the daily object, reconciled outside the last minute with a time recorded
C12_Witness ==
  /\ res.called
  /\ spec.schedule = "0 3 * * *"
  /\ ~res.needsRestart
  /\ res.before # {}
  /\ Len(res.ops) = 1
  /\ lastRestartTime = res.before
  /\ clock = res.now

(***************************************************************************)
(* C13  After an invocation that returns no error, the lastRestartTime of  *)
(* the object is set, whether or not a restart was due.                    *)
(***************************************************************************)
C13_StatusSetAfterSuccess ==
  (res.called /\ res.err = "" /\ exists) => lastRestartTime # {}

\* an object in Asia/Shanghai reconciled without error while a status write
\* was the only thing to do
C13_Witness ==
  /\ res.called /\ res.err = "" /\ exists
  /\ spec.timeZone = "Asia/Shanghai"
  /\ res.before = {}
  /\ ~PassDone(res)
  /\ lastRestartTime # {}

(***************************************************************************)
(* C14  parseCronSchedule returns the schedule of the 5-field grammar      *)
(* whenever that grammar accepts the expression, consults the 6-field      *)
(* grammar only when it does not, and fails only when both fail; Reconcile *)
(* evaluates an expression both grammars accept as the 5-field grammar     *)
(* reads it.                                                               *)
(***************************************************************************)
C14_Resolves(standard, seconds, resolved) ==
  /\ standard.ok => resolved = ParsedBy(standard, "standardParser")
  /\ ~standard.ok => resolved = ParsedBy(seconds, "parser")
  /\ (res.err = "parse") <=> (~standard.ok /\ ~seconds.ok)
  /\ (Decided(res) /\ standard.ok) =>
        res.nextRun = ScheduleNext(standard.sch, res.now, TheOffset)

C14_FiveFieldFirst ==
  GetSucceeded(res) =>
    C14_Resolves(Parse(spec.schedule, FALSE), Parse(spec.schedule, TRUE),
                 parseCronSchedule(spec.schedule))

\* a descriptor, which both grammars accept, has been reconciled
C14_Witness ==
  /\ Decided(res)
  /\ spec.schedule = "@hourly"
  /\ Parse(spec.schedule, FALSE).ok
  /\ Parse(spec.schedule, TRUE).ok
  /\ parseCronSchedule(spec.schedule).by = "standardParser"

\* "0 " + e
ZeroPrefixed(e) == "0 " \o e

(***************************************************************************)
(* C15 as stated  For every expression e the 5-field grammar accepts,      *)
(* named descriptors included, parseCronSchedule(e) succeeds and the next  *)
(* occurrence Reconcile computes from it is that of "0 " + e parsed under  *)
(* the 6-field grammar.                                                    *)
(***************************************************************************)
C15_ZeroPrefixAgrees ==
  (Decided(res) /\ Parse(spec.schedule, FALSE).ok) =>
    LET six == Parse(ZeroPrefixed(spec.schedule), TRUE)
    IN  /\ parseCronSchedule(spec.schedule).ok
        /\ six.ok
        /\ res.nextRun = ScheduleNext(six.sch, res.now, TheOffset)

(***************************************************************************)
(* C15 as amended  For every expression e of five fields that the 5-field  *)
(* grammar accepts, parseCronSchedule(e) succeeds and the next occurrence  *)
(* Reconcile computes from it is that of "0 " + e parsed under the 6-field *)
(* grammar; for a named descriptor d, parseCronSchedule(d) succeeds and    *)
(* the 6-field grammar rejects "0 " + d.                                   *)
(***************************************************************************)
C15_AgreesOnFields(five, six) ==
  five.ok =>
    /\ parseCronSchedule(spec.schedule).ok
    /\ HasAtPrefix(spec.schedule) => ~six.ok
    /\ ~HasAtPrefix(spec.schedule) =>
          /\ six.ok
          /\ res.nextRun = ScheduleNext(six.sch, res.now, TheOffset)

C15_ZeroPrefixAgreesOnFields ==
  Decided(res) =>
    C15_AgreesOnFields(Parse(spec.schedule, FALSE),
                       Parse(ZeroPrefixed(spec.schedule), TRUE))

\* the daily 5-field expression, reconciled, with its 6-field counterpart
C15_Witness ==
  /\ Decided(res)
  /\ spec.schedule = "0 3 * * *"
  /\ Parse(ZeroPrefixed(spec.schedule), TRUE).ok
  /\ res.nextRun # ZeroTime
  /\ res.nextRun = ScheduleNext(Parse(ZeroPrefixed(spec.schedule), TRUE).sch,
                                 res.now, TheOffset)

(***************************************************************************)
(* C16  The schedule "0 3 * * * ?" has one occurrence a day, at 03:00:00   *)
(* in the configured zone, and "0 */12 * * * ?" one every twelve hours:    *)
(* the occurrence Reconcile computes is at such a time of day and the      *)
(* occurrence after it is a day, or twelve hours, later.                   *)
(***************************************************************************)
C16_ReadmeSchedules ==
  (Decided(res) /\ spec.schedule \in {"0 3 * * * ?", "0 */12 * * * ?"}) =>
    LET w == WallOf((res.nextRun + TheOffset * Hour) \div Second)
        following == ScheduleNext(TheSchedule, res.nextRun, TheOffset)
    IN  /\ w.mi = 0
        /\ w.s = 0
        /\ spec.schedule = "0 3 * * * ?" =>
              (w.h = 3 /\ following = res.nextRun + 24 * Hour)
        /\ spec.schedule = "0 */12 * * * ?" =>
              (w.h \in {0, 12} /\ following = res.nextRun + 12 * Hour)

(***************************************************************************)
(* C17  With an empty timeZone the schedule is evaluated against UTC wall  *)
(* clock time: the occurrence computed, the decision and the requeue delay *)
(* are those of the instant read in UTC, whatever the zone of the process. *)
(***************************************************************************)
C17_EmptyZoneIsUTC ==
  (Decided(res) /\ spec.timeZone = "") =>
    LET nextRun == ScheduleNext(TheSchedule, res.now, 0)
    IN  /\ res.nextRun = nextRun
        /\ res.needsRestart = NeedsRestart(nextRun, res.now)
        /\ res.err = "" => res.requeueAfter = Sub(nextRun, res.now)

(***************************************************************************)
(* C19  After a restart the requeue deadline now + RequeueAfter is the     *)
(* occurrence that follows the one the restart served, and so lies after   *)
(* the occurrence served.                                                  *)
(***************************************************************************)
C19_DeadlineIsFollowingCycle ==
  (PassDone(res) /\ res.err = "" /\ res.nextRun # ZeroTime) =>
    LET served == ScheduleNext(TheSchedule, res.now, TheOffset)
        deadline == res.now + res.requeueAfter
    IN  /\ deadline > served
        /\ deadline = ScheduleNext(TheSchedule, served, TheOffset)

(***************************************************************************)
(* C20  In a reconciliation that restarts, the write of lastRestartTime is *)
(* the last store call of the invocation: it comes after the successful    *)
(* listing and after every deletion attempt.                               *)
(***************************************************************************)
C20_StatusCommitLast ==
  (PassDone(res) /\ res.nextRun # ZeroTime) =>
    /\ IsUpdate(res.ops[Len(res.ops)])
    /\ \A i \in 1..(Len(res.ops) - 1) : ~IsUpdate(res.ops[i])

(***************************************************************************)
(* C18  Invocations for a second object of the namespace, whose selector   *)
(* matches the same pods, do not interfere with those for the first: what  *)
(* an invocation for the first object decides, writes to its status and    *)
(* returns depends on its own schedule, zone, lastRestartTime and instant  *)
(* only, whether the other object's invocations ran before it or side by   *)
(* side with it; a pod the other invocation deleted first costs a failed   *)
(* Delete and no error; and neither object's status changes but by the     *)
(* decision of its own invocation.                                         *)
(***************************************************************************)
C18_OwnDecisionOnly(nextRun, dueNow) ==
  (res' # res /\ Decided(res')) =>
    /\ res'.nextRun = nextRun
    /\ res'.needsRestart = dueNow
    /\ res'.err \in {"", "update", "list"}
    /\ (\E i \in 1..Len(res'.ops) : ~res'.ops[i].ok) /\ res'.err = "" =>
          PassDone(res')
    /\ res'.err = "" =>
          /\ res'.requeueAfter = Sub(nextRun, clock)
          /\ PassDone(res') <=> dueNow
          /\ lastRestartTime' = (IF dueNow \/ lastRestartTime = {}
                                 THEN {clock} ELSE lastRestartTime)

C18_OtherStatusItsOwn ==
  other' # other =>
    /\ other' = {clock}
    /\ \/ other = {}
       \/ NeedsRestart(ScheduleNext(parseCronSchedule(OtherSpec.schedule).sch, clock,
                                    NowLocation(OtherSpec.timeZone, local).offset),
                       clock)

C18_Step(nextRun) ==
  /\ C18_OwnDecisionOnly(nextRun, NeedsRestart(nextRun, clock))
  /\ res' = res => lastRestartTime' = lastRestartTime
  /\ C18_OtherStatusItsOwn

C18_NoInterference ==
  [][res' # res \/ other' # other \/ lastRestartTime' # lastRestartTime
       => C18_Step(ScheduleNext(TheSchedule, clock, TheOffset))]_vars

\* both invocations restarted side by side: a Delete of the first object's
\* invocation failed on a pod that is gone, and it returned no error
C18_Witness ==
  /\ res.called /\ res.err = "" /\ PassDone(res)
  /\ res.now = clock
  /\ \E i \in 1..Len(res.ops) :
       IsDelete(res.ops[i]) /\ ~res.ops[i].ok /\ res.ops[i].pod \notin pods
  /\ \E i \in 1..Len(res.ops) : IsDelete(res.ops[i]) /\ res.ops[i].ok
  /\ lastRestartTime = {res.now}
  /\ other = {res.now}

(***************************************************************************)
(* C21  When the object is gone, so that the Get fails with NotFound,      *)
(* Reconcile returns no error, having listed nothing, deleted nothing and  *)
(* written no status.                                                      *)
(***************************************************************************)
C21_NotFoundIsNoError ==
  [][(Invoked /\ ~exists) =>
       /\ res'.err = ""
       /\ Len(res'.ops) = 1
       /\ pods' = pods
       /\ lastRestartTime' = lastRestartTime]_vars

(***************************************************************************)
(* C23  Within an invocation of Reconcile a listing or a deletion comes    *)
(* only after the status write of that invocation has succeeded; when the  *)
(* status write fails in a due reconciliation the error is returned with   *)
(* nothing listed, nothing deleted and the lastRestartTime as it was; and  *)
(* a pass is performed only by an invocation that is itself due.           *)
(***************************************************************************)
C23_DeleteOnlyAfterStatusWrite ==
  Decided(res) =>
    /\ \A j \in 1..Len(res.ops) :
         (IsList(res.ops[j]) \/ IsDelete(res.ops[j])) =>
           \E i \in 1..(j - 1) : IsUpdate(res.ops[i]) /\ res.ops[i].ok
    /\ res.err = "update" =>
         /\ ~ListCalled(res)
         /\ Deletes(res) = << >>
         /\ exists => lastRestartTime = res.before
    /\ PassDone(res) => NeedsRestart(res.nextRun, res.now)

\* a due reconciliation whose status write failed
C23_Witness ==
  /\ res.called
  /\ res.needsRestart
  /\ res.err = "update"
  /\ res.ops = <<Op("get", 0, TRUE), Op("updateStatus", 0, FALSE)>>
  /\ lastRestartTime = res.before

C22_Satisfies(p) ==
  CASE spec.selector = "app=nginx" -> PodLabelled(p)
    [] spec.selector = "" -> TRUE
    [] OTHER -> FALSE

C22_OnlyMatchedPodsDeleted ==
  [][Invoked =>
       /\ \A i \in 1..Len(res'.ops) :
            IsDelete(res'.ops[i]) =>
              /\ res'.ops[i].pod \in pods
              /\ PodNamespace(res'.ops[i].pod) = "default"
              /\ C22_Satisfies(res'.ops[i].pod)
       /\ \A p \in pods :
            (PodNamespace(p) # "default" \/ ~C22_Satisfies(p)) => p \in pods']_vars

\* a pass for app=nginx has deleted the two matching pods: the pod of the
\* other namespace and the pod without the label are still there
C22_Witness ==
  /\ res.called /\ PassDone(res)
  /\ spec.selector = "app=nginx"
  /\ Len(Deletes(res)) = 2
  /\ \A i \in 1..2 : Deletes(res)[i].ok
  /\ pods = {p \in Pods : PodNamespace(p) # "default" \/ ~PodLabelled(p)}
  /\ Cardinality(pods) = 2

(***************************************************************************)
(* C25  In the Reconcile of internal/controller, for a schedule that has a *)
(* next occurrence the nextRun computed is after now at every now: the     *)
(* invocation returns with no error and RequeueAfter = nextRun - now, and  *)
(* it neither lists pods, nor deletes one, nor writes lastRestartTime.  An *)
(* invocation that lists, deletes or writes the status is one whose        *)
(* nextRun is not after its now.                                           *)
(***************************************************************************)
C25_ReturnsToWait ==
  /\ After(res.nextRun, res.now)
  /\ res.ops = <<Op("get", 0, TRUE)>>
  /\ res.err = ""
  /\ res.requeueAfter = Sub(res.nextRun, res.now)
  /\ res.requeueAfter > 0
  /\ exists => lastRestartTime = res.before

====
